---- MODULE Spec2Model ----
(***************************************************************************)
(* State-machine model of the organic detection API (src/main.py):         *)
(* the detections table, the ConnectionManager's subscriber list, the      *)
(* /ws handlers, the POST /api/organic handler with its broadcast loop,    *)
(* and the two read endpoints /api/stats and /detections/monthly.          *)
(*                                                                         *)
(* Time is counted in whole hours since 2024-12-01 00:00:00 UTC, so that   *)
(* DATE(), strftime('%H'), strftime('%m') and strftime('%Y') of SQLite can *)
(* be computed on it.  Confidence values are counted in tenths, and an     *)
(* average is the exact fraction [num, den]; SQL NULL / Python None is     *)
(* the fraction with den = 0.                                              *)
(*                                                                         *)
(* The server is one asyncio event loop: a handler runs without            *)
(* interruption from one await to the next, so every action below is one   *)
(* such uninterrupted segment.                                             *)
(***************************************************************************)
EXTENDS Integers, Sequences, FiniteSets

VARIABLES now, detections, sqlite_sequence, active_connections, peer,
          handler, inbox, request, response

vars == <<now, detections, sqlite_sequence, active_connections, peer,
          handler, inbox, request, response>>

(***************************************************************************)
(* Bounds of the model.                                                    *)
(***************************************************************************)
\* number of websocket clients that ever connect
MaxConns == 2
\* number of POST /api/organic requests that are ever made
MaxReports == 2
\* number of detections that are ever stored when only the store is exercised
MaxStored == 2

\* default of the hours parameter of get_stats
DefaultHours == 24
\* the window of the hourly query: datetime('now', '-24 hours')
HourlyWindowHours == 24
\* the year of the monthly query: strftime('%Y', detection_time) = '2025'
MonthlyYear == 2025
\* COALESCE(db.count, 0) * 100
MassePerDetection == 100

Conns == 1..MaxConns
Reports == 1..MaxReports

\* confidence query values, in tenths (0.0, 0.5, 0.9)
Confidences == {0, 5, 9}
\* the confidence reported while the hub is exercised (0.9)
HubConfidences == {9}

\* values of the hours query parameter of GET /api/stats
HoursInputs == {1, 24, 48}

\* The instants (hours since 2024-12-01 00:00 UTC) the wall clock is observed
\* at: 2024-12-31 23:00, 2025-01-01 00:00, 01:00, 2025-01-02 00:00, 01:00,
\* 12:00, 2025-02-01 00:00, 2025-12-31 23:00, 2026-01-01 00:00.
Instants == {743, 744, 745, 768, 769, 780, 1488, 9503, 9504}
FirstInstant == CHOOSE t \in Instants : \A u \in Instants : t <= u

(***************************************************************************)
(* Calendar of SQLite's date functions on the hour count.                  *)
(***************************************************************************)
HoursPerDay == 24
DaysInDecember2024 == 31
DaysIn2025 == 365
MonthLengths == <<31, 28, 31, 30, 31, 30, 31, 31, 30, 31, 30, 31>>

\* DATE(t): the day number
DateOf(t) == t \div HoursPerDay

\* strftime('%H', t) as a number 0..23
HourOf(t) == t % HoursPerDay

\* strftime('%Y', t)
YearOf(t) ==
    IF DateOf(t) < DaysInDecember2024 THEN 2024
    ELSE IF DateOf(t) < DaysInDecember2024 + DaysIn2025 THEN 2025
    ELSE 2026

RECURSIVE MonthOfDay(_, _)
\* the month (1..12) holding day d (0-based) of a 365-day year, from month m on
MonthOfDay(d, m) ==
    IF m = 12 \/ d < MonthLengths[m] THEN m
    ELSE MonthOfDay(d - MonthLengths[m], m + 1)

\* CAST(strftime('%m', t) AS INTEGER)
MonthOf(t) ==
    IF YearOf(t) = 2024 THEN 12
    ELSE IF YearOf(t) = 2025 THEN MonthOfDay(DateOf(t) - DaysInDecember2024, 1)
    ELSE MonthOfDay(DateOf(t) - DaysInDecember2024 - DaysIn2025, 1)

\* strftime('%H', t): the two-digit label
HourLabels == <<"00", "01", "02", "03", "04", "05", "06", "07", "08", "09", "10", "11",
                "12", "13", "14", "15", "16", "17", "18", "19", "20", "21", "22", "23">>

(***************************************************************************)
(* SQL aggregates.                                                         *)
(***************************************************************************)
Range(s) == {s[i] : i \in 1..Len(s)}

RECURSIVE SumConfidence(_, _)
SumConfidence(tbl, idx) ==
    IF idx = {} THEN 0
    ELSE LET i == CHOOSE j \in idx : TRUE
         IN tbl[i].confidence + SumConfidence(tbl, idx \ {i})

NULL == [num |-> 0, den |-> 0]
Float(n) == [num |-> n, den |-> 1]

\* AVG(confidence) over the rows idx: NULL when there is no row
AvgConfidence(tbl, idx) ==
    IF idx = {} THEN NULL
    ELSE [num |-> SumConfidence(tbl, idx), den |-> Cardinality(idx)]

\* float(conf or 0): None and 0.0 are falsy
FloatOrZero(conf) == IF conf.den = 0 \/ conf.num = 0 THEN Float(0) ELSE conf

RECURSIVE Ascending(_)
\* the numbers of set S as an ascending sequence (the order GROUP BY and
\* ORDER BY emit their rows in)
Ascending(S) ==
    IF S = {} THEN <<>>
    ELSE LET m == CHOOSE x \in S : \A y \in S : x <= y
         IN <<m>> \o Ascending(S \ {m})

(***************************************************************************)
(* GET /api/stats, also called by add_detection.                           *)
(***************************************************************************)
\* SELECT COUNT(*), AVG(confidence) ... WHERE DATE(detection_time) = DATE('now')
DailyRows(tbl, t) ==
    {i \in 1..Len(tbl) : DateOf(tbl[i].detection_time) = DateOf(t)}

\* ... WHERE detection_time > datetime('now', '-24 hours'): the hours
\* parameter is not used by the query
HourlyRows(tbl, t, hours) ==
    {i \in 1..Len(tbl) : tbl[i].detection_time > t - HourlyWindowHours}

\* the rows of one GROUP BY hour group
HourGroup(tbl, idx, h) == {i \in idx : HourOf(tbl[i].detection_time) = h}

HourlyData(tbl, idx) ==
    LET hs == Ascending({HourOf(tbl[i].detection_time) : i \in idx})
    IN [k \in 1..Len(hs) |->
          [hour |-> HourLabels[hs[k] + 1],
           count |-> Cardinality(HourGroup(tbl, idx, hs[k])),
           confidence |-> FloatOrZero(AvgConfidence(tbl, HourGroup(tbl, idx, hs[k])))]]

get_stats(tbl, t, hours) ==
    LET daily == DailyRows(tbl, t)
    IN [daily_total |-> Cardinality(daily),
        daily_avg_confidence |-> AvgConfidence(tbl, daily),
        compost_kg |-> [num |-> Cardinality(daily) * 1, den |-> 10],
        hourly_data |-> HourlyData(tbl, HourlyRows(tbl, t, hours))]

(***************************************************************************)
(* GET /detections/monthly.                                                *)
(***************************************************************************)
MonthNames == <<"Janvier", "Février", "Mars", "Avril", "Mai", "Juin", "Juillet",
                "Août", "Septembre", "Octobre", "Novembre", "Décembre">>

\* the months CTE
Months == [m \in 1..12 |-> [month_num |-> m, month_name |-> MonthNames[m]]]

\* detections_by_month without its WHERE clause: every year is counted
DetectionsByMonthAnyYear(tbl) ==
    {[month_num |-> m,
      count |-> Cardinality({i \in 1..Len(tbl) : MonthOf(tbl[i].detection_time) = m})] :
       m \in {MonthOf(tbl[i].detection_time) : i \in 1..Len(tbl)}}

\* the detections_by_month CTE: one [month_num, count] row for every month
\* that has a detection of year 2025
DetectionsByMonth(tbl) ==
    LET idx == {i \in 1..Len(tbl) : YearOf(tbl[i].detection_time) = MonthlyYear}
    IN {[month_num |-> m,
         count |-> Cardinality({i \in idx : MonthOf(tbl[i].detection_time) = m})] :
          m \in {MonthOf(tbl[i].detection_time) : i \in idx}}

\* COALESCE(db.count, 0) over the LEFT JOIN on month_num
Coalesce(db, m) ==
    IF \E r \in db : r.month_num = m
    THEN (CHOOSE r \in db : r.month_num = m).count
    ELSE 0

get_monthly_detections(tbl) ==
    LET db == DetectionsByMonth(tbl)
        order == Ascending({Months[k].month_num : k \in 1..Len(Months)})
    IN [k \in 1..Len(order) |->
          [month_name |-> Months[order[k]].month_name,
           detection_count |-> Coalesce(db, order[k]),
           masse |-> Coalesce(db, order[k]) * MassePerDetection]]

(***************************************************************************)
(* The detections table.                                                   *)
(***************************************************************************)
\* a plain counter that is not advanced past the first row
ReusedRowId(seq) == IF seq = 0 THEN 1 ELSE seq

\* INTEGER PRIMARY KEY AUTOINCREMENT: one more than the largest id ever used
NewRowId(seq) == seq + 1

\* INSERT INTO detections (item_type, confidence) VALUES ('organic', ?), with
\* detection_time DEFAULT CURRENT_TIMESTAMP; committed when the with block ends
Insert(tbl, id, confidence, t) ==
    Append(tbl, [id |-> id, detection_time |-> t, item_type |-> "organic",
                 confidence |-> confidence])

(***************************************************************************)
(* State after start-up: init_db() on a fresh database, no connection.     *)
(***************************************************************************)
Init ==
    /\ now = FirstInstant
    /\ detections = <<>>
    /\ sqlite_sequence = 0
    /\ active_connections = <<>>
    /\ peer = [c \in Conns |-> "none"]
    /\ handler = [c \in Conns |-> "none"]
    /\ inbox = [c \in Conns |-> <<>>]
    /\ request = <<>>
    /\ response = <<>>

(***************************************************************************)
(* The websocket endpoint /ws and the ConnectionManager.                   *)
(***************************************************************************)
\* A client opens /ws: websocket_endpoint starts and manager.connect is
\* suspended in `await websocket.accept()`.
ConnectAccept(c) ==
    /\ peer[c] = "none"
    /\ \A d \in Conns : d < c => peer[d] # "none"
    /\ peer' = [peer EXCEPT ![c] = "up"]
    /\ handler' = [handler EXCEPT ![c] = "accept"]
    /\ UNCHANGED <<now, detections, sqlite_sequence, active_connections, inbox,
                   request, response>>

\* accept() returns: the websocket is appended and the handler is suspended
\* in `await websocket.receive_text()`.
ConnectAppend(c) ==
    /\ handler[c] = "accept"
    /\ active_connections' = Append(active_connections, c)
    /\ handler' = [handler EXCEPT ![c] = "receive"]
    /\ UNCHANGED <<now, detections, sqlite_sequence, peer, inbox, request,
                   response>>

\* The client's side of the connection goes away (close frame or lost socket).
ClientClose(c) ==
    /\ peer[c] = "up"
    /\ peer' = [peer EXCEPT ![c] = "down"]
    /\ UNCHANGED <<now, detections, sqlite_sequence, active_connections, handler,
                   inbox, request, response>>

\* list.remove(x): the first occurrence of x is deleted
ListRemove(list, x) ==
    LET i == CHOOSE j \in 1..Len(list) : list[j] = x /\ \A k \in 1..(j - 1) : list[k] # x
    IN SubSeq(list, 1, i - 1) \o SubSeq(list, i + 1, Len(list))

\* receive_text() returns a text of a live client: it is discarded and the
\* loop awaits the next one.
ReceiveText(c) ==
    /\ handler[c] = "receive"
    /\ peer[c] = "up"
    /\ UNCHANGED vars

\* receive_text() raises WebSocketDisconnect: the handler removes the
\* websocket from the list and ends.
ReceiveDisconnect(c) ==
    /\ handler[c] = "receive"
    /\ peer[c] = "down"
    /\ active_connections' = ListRemove(active_connections, c)
    /\ handler' = [handler EXCEPT ![c] = "closed"]
    /\ UNCHANGED <<now, detections, sqlite_sequence, peer, inbox, request,
                   response>>

(***************************************************************************)
(* POST /api/organic and ConnectionManager.broadcast.                      *)
(***************************************************************************)
\* the message with get_stats() reading the table as it was before the
\* insert became visible
BroadcastMessageStale(tbl, id, confidence, t) ==
    [event |-> "new_detection",
     data |-> [id |-> id, confidence |-> confidence, timestamp |-> t],
     stats |-> get_stats(SubSeq(tbl, 1, Len(tbl) - 1), t, DefaultHours)]

\* the dict handed to manager.broadcast; tbl is the table when get_stats()
\* is called, after the insert is committed
BroadcastMessage(tbl, id, confidence, t) ==
    [event |-> "new_detection",
     data |-> [id |-> id, confidence |-> confidence, timestamp |-> t],
     stats |-> get_stats(tbl, t, DefaultHours)]

\* One turn of `for connection in self.active_connections: await
\* connection.send_json(message)` for the request record r: the list
\* iterator compares its index with the current length of the list, then
\* send_json either hands the message to the client and suspends, or raises
\* because the connection is gone.  Past the end of the list broadcast
\* returns and the handler answers {"status": "success"}.
BroadcastTurn(r, list, peers) ==
    IF r.it >= Len(list)
    THEN [r EXCEPT !.pc = "returned", !.owed = {}]
    ELSE LET c == list[r.it + 1]
         IN IF peers[c] = "up"
            THEN [r EXCEPT !.pc = "send", !.it = r.it + 1, !.connection = c,
                           !.owed = @ \ {c}]
            ELSE [r EXCEPT !.pc = "raised", !.it = r.it + 1, !.connection = c,
                           !.owed = {}]

\* the effect of the turn that led to record r on the clients
Delivered(r, boxes) ==
    IF r.pc = "send"
    THEN [boxes EXCEPT ![r.connection] = Append(@, r.message)]
    ELSE boxes

\* add_detection up to its first suspension: insert, get_stats(), and the
\* first turn of the broadcast loop; limit caps the number of reports of a
\* run.  The request record holds the position
\* of the handler (pc), the list iterator's index (it), the loop variable
\* (connection) and the message; owed is a history field, the subscribers
\* of the moment broadcast was called that it has not sent to yet, kept while
\* the broadcast runs; no action's guard reads it.
AddDetection(confidence, limit) ==
    /\ Len(request) < limit
    /\ LET id == NewRowId(sqlite_sequence)
           tbl == Insert(detections, id, confidence, now)
           r == BroadcastTurn([pc |-> "start", it |-> 0, connection |-> 0,
                               message |-> BroadcastMessage(tbl, id, confidence, now),
                               owed |-> Range(active_connections)],
                              active_connections, peer)
       IN /\ detections' = tbl
          /\ sqlite_sequence' = id
          /\ request' = Append(request, r)
          /\ inbox' = Delivered(r, inbox)
    /\ UNCHANGED <<now, active_connections, peer, handler, response>>

\* A broadcast suspended in send_json is resumed and takes its next turn.
BroadcastResume(t) ==
    /\ t \in 1..Len(request)
    /\ request[t].pc = "send"
    /\ LET r == BroadcastTurn(request[t], active_connections, peer)
       IN /\ request' = [request EXCEPT ![t] = r]
          /\ inbox' = Delivered(r, inbox)
    /\ UNCHANGED <<now, detections, sqlite_sequence, active_connections, peer,
                   handler, response>>

(***************************************************************************)
(* The read endpoints and the clock.                                       *)
(***************************************************************************)
GetStats(hours) ==
    /\ response' = <<[path |-> "/api/stats", hours |-> hours,
                       body |-> get_stats(detections, now, hours)]>>
    /\ UNCHANGED <<now, detections, sqlite_sequence, active_connections, peer,
                   handler, inbox, request>>

GetMonthlyDetections ==
    /\ response' = <<[path |-> "/detections/monthly",
                       body |-> get_monthly_detections(detections)]>>
    /\ UNCHANGED <<now, detections, sqlite_sequence, active_connections, peer,
                   handler, inbox, request>>

\* the wall clock reaches a later instant
Tick(t) ==
    /\ t > now
    /\ now' = t
    /\ UNCHANGED <<detections, sqlite_sequence, active_connections, peer, handler,
                   inbox, request, response>>

\* The broadcast hub: clients connect and go away while detections are
\* reported.
Next ==
    \/ \E c \in Conns : ConnectAccept(c)
    \/ \E c \in Conns : ConnectAppend(c)
    \/ \E c \in Conns : ClientClose(c)
    \/ \E c \in Conns : ReceiveText(c)
    \/ \E c \in Conns : ReceiveDisconnect(c)
    \/ \E confidence \in HubConfidences : AddDetection(confidence, MaxReports)
    \/ \E t \in Reports : BroadcastResume(t)

Spec == Init /\ [][Next]_vars

\* The store and its aggregates: detections are reported over time, with no
\* client connected, and the read endpoints are queried.
NextStore ==
    \/ \E confidence \in Confidences : AddDetection(confidence, MaxStored)
    \/ \E hours \in HoursInputs : GetStats(hours)
    \/ GetMonthlyDetections
    \/ \E t \in Instants : Tick(t)

SpecStore == Init /\ [][NextStore]_vars

(***************************************************************************)
(* The claims.                                                             *)
(***************************************************************************)
\* how often message m occurs in the sequence box
Count(box, m) == Cardinality({k \in 1..Len(box) : box[k] = m})

\* a fraction that is a number and is 0
IsZero(x) == x.den # 0 /\ x.num = 0

\* request t takes the given turn in this step
Becomes(t, pc) ==
    /\ t \in 1..Len(request')
    /\ request'[t].pc = pc
    /\ (t > Len(request) \/ request[t].pc # pc)

\* C1: when a broadcast hits a send failure on one client, every other
\* subscriber that is still open has received the message: the failure does
\* not abort the delivery to the subscribers that come after it.
C1_FailedSendDoesNotAbort ==
    [][\A t \in Reports :
         Becomes(t, "raised") =>
           \A c \in Range(active_connections) :
              (c # request'[t].connection /\ peer[c] = "up")
                => Count(inbox'[c], request'[t].message) >= 1]_vars

\* C2: a send failure in the broadcast is never propagated to the reporting
\* caller: every report whose insert succeeded is answered with success, so
\* no add_detection ends by raising.
C2_ReportNeverRaises ==
    \A t \in 1..Len(request) : request[t].pc # "raised"

\* C3: a connection on which a send or a receive has errored is out of the
\* subscriber list at once and stays out.
C3_ErroredConnectionRemoved ==
    /\ \A t \in 1..Len(request) :
          request[t].pc = "raised"
            => request[t].connection \notin Range(active_connections)
    /\ \A c \in Conns :
          handler[c] = "closed" => c \notin Range(active_connections)

\* C4: when a broadcast returns, every client that was subscribed when it was
\* called and is still open has received the message, and no client has
\* received it twice.
C4_SubscribersServedExactlyOnce ==
    [][\A t \in Reports :
         (Becomes(t, "returned") /\ t <= Len(request))
           => /\ \A c \in request[t].owed : peer[c] # "up"
              /\ \A c \in Conns : Count(inbox'[c], request'[t].message) <= 1]_vars

\* the position in request (the order the broadcasts were called in) of the
\* broadcast that carries message m
BroadcastOf(m) == CHOOSE t \in 1..Len(request) : request[t].message = m

\* C5: every client receives its messages in the order in which the
\* broadcasts were called.
C5_PerClientFifo ==
    \A c \in Conns : \A i, j \in 1..Len(inbox[c]) :
       i < j => BroadcastOf(inbox[c][i]) < BroadcastOf(inbox[c][j])

\* C6: every report adds exactly one row, whose id is greater than every id
\* stored before, and no step changes or removes a stored row.
C6_AppendOnlyIncreasingIds ==
    [][/\ Len(request') > Len(request) => Len(detections') = Len(detections) + 1
       /\ \/ detections' = detections
          \/ /\ Len(detections') = Len(detections) + 1
             /\ SubSeq(detections', 1, Len(detections)) = detections
             /\ \A i \in 1..Len(detections) :
                   detections[i].id < detections'[Len(detections')].id]_vars

C6_Witness ==
    /\ Len(detections) >= 2
    /\ detections[1].id < detections[2].id
    /\ Len(request) = Len(detections)
    /\ \A t \in 1..Len(request) : request[t].pc = "returned"
    /\ response # <<>>

\* the answer of GET /api/stats given in this step
StatsAnswered ==
    /\ response' # response
    /\ response'[1].path = "/api/stats"

\* C7: when no event of the current day is stored, the daily part of
\* GET /api/stats is count 0, average confidence 0 and mass 0.
C7_EmptyDayReportsZero ==
    [][(/\ StatsAnswered
        /\ \A i \in 1..Len(detections) :
              DateOf(detections[i].detection_time) # DateOf(now))
         => /\ response'[1].body.daily_total = 0
            /\ IsZero(response'[1].body.daily_avg_confidence)
            /\ IsZero(response'[1].body.compost_kg)]_vars

\* the count the hourly breakdown gives for hour h (0 when there is no row)
HourlyCount(data, h) ==
    IF \E k \in 1..Len(data) : data[k].hour = HourLabels[h + 1]
    THEN (CHOOSE r \in Range(data) : r.hour = HourLabels[h + 1]).count
    ELSE 0

\* C8: the hourly breakdown of getStats(hours) counts exactly the events of
\* the trailing `hours` hours: under every hour label, every event detected
\* less than `hours` hours ago is counted and no event detected more than
\* `hours` hours ago is (an event exactly `hours` hours old may be either).
C8_HourlyWindowFollowsHours ==
    [][StatsAnswered
         => \A h \in 0..(HoursPerDay - 1) :
               LET n == HourlyCount(response'[1].body.hourly_data, h)
                   from == now - response'[1].hours
               IN /\ n >= Cardinality({i \in 1..Len(detections) :
                            /\ HourOf(detections[i].detection_time) = h
                            /\ detections[i].detection_time > from})
                  /\ n <= Cardinality({i \in 1..Len(detections) :
                            /\ HourOf(detections[i].detection_time) = h
                            /\ detections[i].detection_time >= from})]_vars

\* C9: the monthly breakdown has exactly 12 entries, January to December; the
\* entry of a month counts the stored events of that month of 2025, and its
\* masse is 100 times the count.
C9_MonthlyBreakdown ==
    [][(response' # response /\ response'[1].path = "/detections/monthly")
         => LET body == response'[1].body
            IN /\ Len(body) = 12
               /\ [m \in 1..12 |-> body[m].month_name] =
                     <<"Janvier", "Février", "Mars", "Avril", "Mai", "Juin",
                       "Juillet", "Août", "Septembre", "Octobre", "Novembre",
                       "Décembre">>
               /\ \A m \in 1..12 :
                     /\ body[m].detection_count =
                          Cardinality({i \in 1..Len(detections) :
                             /\ YearOf(detections[i].detection_time) = 2025
                             /\ MonthOf(detections[i].detection_time) = m})
                     /\ body[m].masse = body[m].detection_count * 100]_vars

C9_Witness ==
    /\ response # <<>>
    /\ response[1].path = "/detections/monthly"
    /\ response[1].body[1].detection_count >= 1
    /\ response[1].body[12].detection_count = 0
    /\ \E i \in 1..Len(detections) : YearOf(detections[i].detection_time) = 2024

RECURSIVE TotalCount(_)
TotalCount(data) ==
    IF data = <<>> THEN 0 ELSE data[1].count + TotalCount(Tail(data))

\* C10: the stats in the message for event n are computed from the store
\* that holds event n and no later event, and the message is sent to no
\* client before event n is committed.
C10_StatsOfCommittedEvent ==
    /\ \A t \in 1..Len(request) :
          LET m == request[t].message
              n == m.data.id
          IN /\ \E i \in 1..Len(detections) :
                   /\ detections[i].id = n
                   /\ m.stats.daily_total =
                        Cardinality({j \in 1..Len(detections) :
                           /\ detections[j].id <= n
                           /\ DateOf(detections[j].detection_time)
                                = DateOf(detections[i].detection_time)})
                   /\ TotalCount(m.stats.hourly_data) =
                        Cardinality({j \in 1..Len(detections) :
                           /\ detections[j].id <= n
                           /\ detections[j].detection_time
                                > detections[i].detection_time - 24})
    /\ \A c \in Conns : \A k \in 1..Len(inbox[c]) :
          /\ \E t \in 1..Len(request) : request[t].message = inbox[c][k]
          /\ \E i \in 1..Len(detections) : detections[i].id = inbox[c][k].data.id

C10_Witness ==
    /\ Len(request) = 2
    /\ request[1].pc = "send"
    /\ request[2].pc = "send"
    /\ request[2].message.stats.daily_total = 2
    /\ \E c \in Conns : Count(inbox[c], request[2].message) = 1
    /\ \E c \in Conns : peer[c] = "up" /\ Count(inbox[c], request[1].message) = 0

====
